---- MODULE Spec2Model ----
(***************************************************************************)
(* Task registry and server-sent event pipeline of app.py: TaskManager,    *)
(* POST /tasks, process_task with its SSELogHandler, and                   *)
(* task_event_generator.                                                   *)
(*                                                                         *)
(* asyncio runs one coroutine at a time and switches only at an await that *)
(* really suspends.  TaskManager.queues holds unbounded asyncio.Queue()s,  *)
(* whose put() never suspends, so every action below is the code between   *)
(* two suspending awaits (agent.initialize, agent.run, a generator yield,  *)
(* queue.get).  A log line is handed to every handler registered on the    *)
(* process-wide logger at the moment it is logged.                         *)
(***************************************************************************)
EXTENDS Integers, Sequences, FiniteSets, TLC

VARIABLES tasks, queues, handlers, pc, next_uuid, now, responses, conns,
          published, calls, outcome, log_count, api_calls, requests,
          reply, token_rows

vars == <<tasks, queues, handlers, pc, next_uuid, now, responses, conns,
          published, calls, outcome, log_count, api_calls, requests, reply,
          token_rows>>

\* ---------------------------------------------------------------- bounds
MaxRequests == 2
MaxConns == 2
MaxLogs == 1
MaxBeats == 1
MaxCalls == 2
MaxTime == 600

\* ------------------------------------------------------ program constants
TASK_DEDUPE_WINDOW_SECONDS == 5
KEEPALIVE_TIMEOUT == 300

\* ------------------------------------------------------------ input sets
Callers == {"alice"}
Prompts == {<<" ", "X", " ">>, <<" ">>}
Gaps == {0, TASK_DEDUPE_WINDOW_SECONDS}
Errors == {"boom"}
UnknownTask == 0

\* Raw log lines as token sequences: a prefix, the " - " separator of the
\* log format, and the text the agent logged.
Lines ==
  { <<"INFO", " - ", "Manus's thoughts:", "A">>,
    <<"INFO", " - ", "Manus selected", "B">>,
    <<"INFO", " - ", "Tool", "mysql_rw", "executed:", "{id:r1}">>,
    <<"INFO", " - ", "Oops!">>,
    <<"INFO", " - ", "Special tool">>,
    <<"plain">> }

ErrorLine(task_id) == <<"ERROR", " - ", "Error executing agent for task">>

\* ---------------------------------------------------------- pure helpers
Contains(needle, message) == \E i \in 1..Len(message) : message[i] = needle

RECURSIVE lstrip(_)
lstrip(s) == IF s # <<>> /\ Head(s) = " " THEN lstrip(Tail(s)) ELSE s

RECURSIVE rstrip(_)
rstrip(s) ==
  IF s # <<>> /\ s[Len(s)] = " " THEN rstrip(SubSeq(s, 1, Len(s) - 1)) ELSE s

strip(s) == rstrip(lstrip(s))

\* re.sub(r"^.*? - ", "", message): drop everything up to the first " - ".
cleaned(message) ==
  IF Contains(" - ", message)
  THEN LET i == CHOOSE k \in 1..Len(message) :
                  /\ message[k] = " - "
                  /\ \A j \in 1..(k - 1) : message[j] # " - "
       IN SubSeq(message, i + 1, Len(message))
  ELSE message

classify(cleaned_message) ==
  IF Contains("Manus's thoughts:", cleaned_message)
     \/ Contains("mcp_agent's thoughts:", cleaned_message) THEN "think"
  ELSE IF Contains("Manus selected", cleaned_message)
     \/ Contains("mcp_agent selected", cleaned_message) THEN "tool"
  ELSE IF Contains("Tool", cleaned_message) THEN "act"
  ELSE IF Contains("Oops!", cleaned_message) THEN "error"
  ELSE IF Contains("Special tool", cleaned_message) THEN "complete"
  ELSE "log"

\* json.loads of the text after "executed:"; the payload may name its own id.
HasPayload(cleaned_message) ==
  /\ Contains("executed:", cleaned_message)
  /\ \E i \in 1..Len(cleaned_message) :
       cleaned_message[i] \in {"{id:r1}", "{}"}

PayloadHasId(cleaned_message) == Contains("{id:r1}", cleaned_message)

\* ------------------------------------------------------------ data model
NoId == <<"none", 0, 0>>

Event(type, id, content, status, message) ==
  [type |-> type, id |-> id, content |-> content, status |-> status,
   message |-> message]

Frame(event, id, status, steps, message) ==
  [event |-> event, id |-> id, status |-> status, steps |-> steps,
   message |-> message]

FailedStatus(error) == "failed: " \o error

IsFailed(status) == \E e \in Errors : status = FailedStatus(e)

IsTerminal(status) == status = "completed" \/ IsFailed(status)

TerminalKinds == {"complete", "error"}

\* The TaskManager singleton together with the uuid source and the call log.
TM == [tasks |-> tasks, queues |-> queues, next_uuid |-> next_uuid,
       published |-> published, calls |-> calls]

uuid4(tm, task_id) == <<"", task_id, tm.next_uuid[task_id]>>

Prefixed(prefix, id) == <<prefix, id[2], id[3]>>

fresh(tm, task_id) == [tm EXCEPT !.next_uuid[task_id] = @ + 1]

\* put() on a queue that hands out the newest event first.
put_at_front(tm, task_id, event) ==
  [tm EXCEPT !.queues[task_id] = <<event>> \o @,
             !.published[task_id] = Append(@, event)]
put(tm, task_id, event) ==
  [tm EXCEPT !.queues[task_id] = Append(@, event),
             !.published[task_id] = Append(@, event)]

debug_queue_event(tm, task_id, event_type) ==
  IF task_id \in DOMAIN tm.queues
  THEN put(fresh(tm, task_id), task_id,
           Event("debug", uuid4(tm, task_id), <<>>, "", event_type))
  ELSE fresh(tm, task_id)

\* update_task_step that keeps only the latest step of the task.
update_task_step_overwrites(tm, task_id, step, result, step_type) ==
  IF task_id \in DOMAIN tm.tasks
  THEN LET appended == [tm EXCEPT !.tasks[task_id].steps =
                          <<[step |-> step, result |-> result,
                             type |-> step_type]>>]
           event_id == uuid4(appended, task_id)
           step_event == Event(step_type, event_id, result, "", "")
       IN debug_queue_event(put(fresh(appended, task_id), task_id, step_event),
                            task_id, step_type)
  ELSE tm
\* result is a str at every call site (the cleaned log line), so the branch
\* for a dict result of a tool step is never taken and is left out.
update_task_step(tm, task_id, step, result, step_type) ==
  IF task_id \in DOMAIN tm.tasks
  THEN LET appended == [tm EXCEPT !.tasks[task_id].steps =
                          Append(@, [step |-> step, result |-> result,
                                     type |-> step_type])]
           event_id == uuid4(appended, task_id)
           step_event == Event(step_type, event_id, result, "", "")
       IN debug_queue_event(put(fresh(appended, task_id), task_id, step_event),
                            task_id, step_type)
  ELSE tm

\* complete_task that publishes its events but leaves the status as it was.
complete_task_keeps_status(tm, task_id) ==
  IF task_id \in DOMAIN tm.tasks
  THEN LET done == [tm EXCEPT !.calls[task_id] = Append(@, "complete_task")]
           event_id == uuid4(done, task_id)
           status_event == Event("status", Prefixed("status-complete", event_id),
                                 <<>>, done.tasks[task_id].status, "")
           complete_event == Event("complete", event_id, <<>>, "", "")
       IN put(put(fresh(done, task_id), task_id, status_event),
              task_id, complete_event)
  ELSE tm

complete_task(tm, task_id) ==
  IF task_id \in DOMAIN tm.tasks
  THEN LET done == [tm EXCEPT !.tasks[task_id].status = "completed",
                              !.calls[task_id] = Append(@, "complete_task")]
           event_id == uuid4(done, task_id)
           status_event == Event("status", Prefixed("status-complete", event_id),
                                 <<>>, "completed", "")
           complete_event == Event("complete", event_id, <<>>, "", "")
       IN put(put(fresh(done, task_id), task_id, status_event),
              task_id, complete_event)
  ELSE tm

\* fail_task that registers a failed task for an id it does not know.
fail_task_registers(tm, task_id, error) ==
  IF task_id \in DOMAIN tm.tasks
  THEN LET failed == [tm EXCEPT !.tasks[task_id].status = FailedStatus(error),
                                !.calls[task_id] = Append(@, "fail_task")]
           event_id == uuid4(failed, task_id)
       IN put(fresh(failed, task_id), task_id,
              Event("error", event_id, <<>>, "", error))
  ELSE IF task_id = Len(tm.tasks) + 1
  THEN [tm EXCEPT !.tasks = Append(@, [id |-> task_id, prompt |-> <<>>,
                                       created_at |-> 0,
                                       status |-> FailedStatus(error),
                                       steps |-> <<>>]),
                  !.queues = Append(@, <<>>),
                  !.next_uuid = Append(@, 1),
                  !.published = Append(@, <<>>),
                  !.calls = Append(@, <<"fail_task">>)]
  ELSE tm
fail_task(tm, task_id, error) ==
  IF task_id \in DOMAIN tm.tasks
  THEN LET failed == [tm EXCEPT !.tasks[task_id].status = FailedStatus(error),
                                !.calls[task_id] = Append(@, "fail_task")]
           event_id == uuid4(failed, task_id)
       IN put(fresh(failed, task_id), task_id,
              Event("error", event_id, <<>>, "", error))
  ELSE tm

\* The if / elif chain of SSELogHandler.__call__ that sets event_type: the
\* TaskManager it leaves behind.  Its "Tool" branch puts a result event on the
\* queue when the line carries a mysql_rw payload.
event_type_chain(tm, task_id, cleaned_message) ==
  IF /\ classify(cleaned_message) = "act"
     /\ Contains("mysql_rw", cleaned_message)
     /\ HasPayload(cleaned_message)
  THEN put(fresh(tm, task_id), task_id,
           Event("result",
                 IF PayloadHasId(cleaned_message)
                 THEN <<"ext", 0, 1>>
                 ELSE Prefixed("result", uuid4(tm, task_id)),
                 <<"Database query result:">>, "", ""))
  ELSE tm

\* SSELogHandler.__call__ of the handler registered for task_id.
SSELogHandler(tm, task_id, message) ==
  LET cleaned_message == cleaned(message)
      event_type == classify(cleaned_message)
      with_result == event_type_chain(tm, task_id, cleaned_message)
  IN update_task_step(with_result, task_id, 0, cleaned_message, event_type)

\* logger.<level>(message): every registered handler is called, in the order
\* the handlers were added.
RECURSIVE logger_emit(_, _, _)
logger_emit(tm, hs, message) ==
  IF hs = {} THEN tm
  ELSE LET h == CHOOSE x \in hs : \A y \in hs : x <= y
       IN logger_emit(SSELogHandler(tm, h, message), hs \ {h}, message)

\* The TaskManager after the calls of an action becomes the next state.
Commit(tm) ==
  \E after \in {tm} :
    /\ tasks' = after.tasks
    /\ queues' = after.queues
    /\ next_uuid' = after.next_uuid
    /\ published' = after.published
    /\ calls' = after.calls

\* ------------------------------------------------------------------ state
Idle ==
  [task |-> UnknownTask, state |-> "idle", frames |-> <<>>, joined |-> 0,
   since |-> 0, quiet |-> 0]

\* Optional[...]: None, or a value in a sequence of length one.
None == <<>>

\* No query has been answered yet.
NoReply == [query |-> "none", body |-> <<>>]

\* No request for the event stream has arrived on the connection.
NoRequest ==
  [task_id |-> UnknownTask, token |-> None, current_user |-> None,
   verdict |-> "none"]

\* The users table.
Users ==
  { [id |-> "u1", username |-> "alice", is_active |-> TRUE],
    [id |-> "u2", username |-> "bob", is_active |-> FALSE] }

\* A token: the "sub" of its payload, whether jwt.decode accepts it
\* (signature and expiry), and a serial that tells apart the tokens issued
\* to one user.
TokenValues ==
  { [sub |-> "alice", decodes |-> TRUE, serial |-> 1],
    [sub |-> "alice", decodes |-> TRUE, serial |-> 2],
    [sub |-> "alice", decodes |-> FALSE, serial |-> 3],
    [sub |-> "bob", decodes |-> TRUE, serial |-> 1] }

\* The lifetime of an access token in seconds.
ACCESS_TOKEN_EXPIRE == 1800

\* The tokens table when the server starts: one stored token for each user.
StoredRows ==
  { [user_id |-> "u1",
     token |-> [sub |-> "alice", decodes |-> TRUE, serial |-> 1],
     expires_at |-> ACCESS_TOKEN_EXPIRE],
    [user_id |-> "u2",
     token |-> [sub |-> "bob", decodes |-> TRUE, serial |-> 1],
     expires_at |-> ACCESS_TOKEN_EXPIRE] }

Init ==
  /\ tasks = <<>>
  /\ queues = <<>>
  /\ handlers = {}
  /\ pc = <<>>
  /\ next_uuid = <<>>
  /\ now = 0
  /\ responses = <<>>
  /\ conns = [c \in 1..MaxConns |-> Idle]
  /\ published = <<>>
  /\ calls = <<>>
  /\ outcome = <<>>
  /\ log_count = 0
  /\ api_calls = <<>>
  /\ requests = [c \in 1..MaxConns |-> NoRequest]
  /\ reply = NoReply
  /\ token_rows = StoredRows

TaskIds == DOMAIN tasks

\* TaskManager.create_task that stores the task and allocates no queue.
TaskManager_create_task_without_queue(tm, prompt, created_at) ==
  LET task_id == Len(tm.tasks) + 1
  IN [tm EXCEPT !.tasks = Append(@, [id |-> task_id, prompt |-> prompt,
                                     created_at |-> created_at,
                                     status |-> "pending", steps |-> <<>>]),
                !.next_uuid = Append(@, 1),
                !.published = Append(@, <<>>),
                !.calls = Append(@, <<>>)]
\* TaskManager.create_task: the uuid is the next unused task id.
TaskManager_create_task(tm, prompt, created_at) ==
  LET task_id == Len(tm.tasks) + 1
  IN [tm EXCEPT !.tasks = Append(@, [id |-> task_id, prompt |-> prompt,
                                     created_at |-> created_at,
                                     status |-> "pending", steps |-> <<>>]),
                !.queues = Append(@, <<>>),
                !.next_uuid = Append(@, 1),
                !.published = Append(@, <<>>),
                !.calls = Append(@, <<>>)]

Response(caller, raw, at, code, task_id, deduped) ==
  [caller |-> caller, prompt |-> raw, at |-> at, code |-> code,
   task_id |-> task_id, deduped |-> deduped]

\* POST /tasks that takes the prompt as it comes.
create_task_accepts_blank(caller, raw, gap) ==
  /\ Len(responses) < MaxRequests
  /\ now' = now + gap
  /\ LET prompt == strip(raw)
     IN /\ Commit(TaskManager_create_task(TM, prompt, now'))
        /\ pc' = Append(pc, "pending")
        /\ outcome' = Append(outcome, "none")
        /\ responses' = Append(responses,
                          Response(caller, raw, now', 200, Len(tasks) + 1,
                                   FALSE))
  /\ UNCHANGED <<handlers, conns, log_count, api_calls, requests,
                 reply, token_rows>>
\* POST /tasks
create_task(caller, raw, gap) ==
  /\ Len(responses) < MaxRequests
  /\ now' = now + gap
  /\ LET prompt == strip(raw)
     IN IF prompt = <<>>
        THEN /\ responses' = Append(responses,
                               Response(caller, raw, now', 400, UnknownTask, FALSE))
             /\ UNCHANGED <<tasks, queues, next_uuid, published, calls, pc,
                            outcome>>
        ELSE /\ Commit(TaskManager_create_task(TM, prompt, now'))
             /\ pc' = Append(pc, "pending")
             /\ outcome' = Append(outcome, "none")
             /\ responses' = Append(responses,
                               Response(caller, raw, now', 200, Len(tasks) + 1, FALSE))
  /\ UNCHANGED <<handlers, conns, log_count, api_calls, requests,
                 reply, token_rows>>

\* process_task that queues its first event without setting status "running".
process_task_begin_keeps_pending(task_id) ==
  /\ task_id \in DOMAIN tasks
  /\ pc[task_id] = "pending"
  /\ LET initial == Event("step", uuid4(TM, task_id),
                          <<"Processing:">> \o tasks[task_id].prompt, "", "")
     IN Commit(put(fresh(TM, task_id), task_id, initial))
  /\ handlers' = handlers \cup {task_id}
  /\ pc' = [pc EXCEPT ![task_id] = "init"]
  /\ UNCHANGED <<now, responses, conns, outcome, log_count, api_calls,
                 requests, reply, token_rows>>

\* process_task up to "await agent.initialize(...)"
process_task_begin(task_id) ==
  /\ task_id \in TaskIds
  /\ pc[task_id] = "pending"
  /\ LET running == [TM EXCEPT !.tasks[task_id].status = "running"]
         initial == Event("step", uuid4(running, task_id),
                          <<"Processing:">> \o tasks[task_id].prompt, "", "")
     IN Commit(put(fresh(running, task_id), task_id, initial))
  /\ handlers' = handlers \cup {task_id}
  /\ pc' = [pc EXCEPT ![task_id] = "init"]
  /\ UNCHANGED <<now, responses, conns, outcome, log_count, api_calls,
                 requests, reply, token_rows>>

initialize_returns(task_id) ==
  /\ task_id \in TaskIds
  /\ pc[task_id] = "init"
  /\ pc' = [pc EXCEPT ![task_id] = "run"]
  /\ UNCHANGED <<tasks, queues, handlers, next_uuid, now, responses, conns,
                 published, calls, outcome, log_count, api_calls, requests,
                 reply, token_rows>>

\* agent.initialize raises: "except Exception" at the inner try logs the
\* error and fails the task; the handler added before stays registered.
initialize_raises(task_id, error) ==
  /\ task_id \in TaskIds
  /\ pc[task_id] = "init"
  /\ Commit(fail_task(logger_emit(TM, handlers, ErrorLine(task_id)),
                      task_id, error))
  /\ pc' = [pc EXCEPT ![task_id] = "done"]
  /\ outcome' = [outcome EXCEPT ![task_id] = "init_raised"]
  /\ UNCHANGED <<handlers, now, responses, conns, log_count, api_calls,
                 requests, reply, token_rows>>

\* The agent of task_id logs one line while agent.run is in progress.
worker_logs(task_id, message) ==
  /\ task_id \in TaskIds
  /\ pc[task_id] = "run"
  /\ log_count < MaxLogs
  /\ log_count' = log_count + 1
  /\ Commit(logger_emit(TM, handlers, message))
  /\ UNCHANGED <<handlers, pc, now, responses, conns, outcome, api_calls,
                 requests, reply, token_rows>>

\* agent.run returns and the handler is left registered (no "finally").
worker_returns_keeps_handler(task_id) ==
  /\ task_id \in TaskIds
  /\ pc[task_id] = "run"
  /\ Commit(complete_task(TM, task_id))
  /\ pc' = [pc EXCEPT ![task_id] = "done"]
  /\ outcome' = [outcome EXCEPT ![task_id] = "returned"]
  /\ UNCHANGED <<handlers, now, responses, conns, log_count, api_calls,
                 requests, reply, token_rows>>
\* agent.run returns: complete_task, then "finally: remove_sse_handler".  The
\* returned value is bound to agent_result and not used.
worker_returns(task_id) ==
  /\ task_id \in TaskIds
  /\ pc[task_id] = "run"
  /\ Commit(complete_task(TM, task_id))
  /\ handlers' = handlers \ {task_id}
  /\ pc' = [pc EXCEPT ![task_id] = "done"]
  /\ outcome' = [outcome EXCEPT ![task_id] = "returned"]
  /\ UNCHANGED <<now, responses, conns, log_count, api_calls,
                 requests, reply, token_rows>>

\* agent.run raises and both "except Exception" clauses fail the task.
worker_raises_fails_twice(task_id, error) ==
  /\ task_id \in DOMAIN tasks
  /\ pc[task_id] = "run"
  /\ handlers' = handlers \ {task_id}
  /\ Commit(fail_task(fail_task(logger_emit(TM, handlers', ErrorLine(task_id)),
                                task_id, error),
                      task_id, error))
  /\ pc' = [pc EXCEPT ![task_id] = "done"]
  /\ outcome' = [outcome EXCEPT ![task_id] = "raised"]
  /\ UNCHANGED <<now, responses, conns, log_count, api_calls,
                 requests, reply, token_rows>>

\* agent.run raises: "finally" removes the handler, then the inner
\* "except Exception" logs the error and fails the task.
worker_raises(task_id, error) ==
  /\ task_id \in TaskIds
  /\ pc[task_id] = "run"
  /\ handlers' = handlers \ {task_id}
  /\ Commit(fail_task(logger_emit(TM, handlers', ErrorLine(task_id)),
                      task_id, error))
  /\ pc' = [pc EXCEPT ![task_id] = "done"]
  /\ outcome' = [outcome EXCEPT ![task_id] = "raised"]
  /\ UNCHANGED <<now, responses, conns, log_count, api_calls,
                 requests, reply, token_rows>>

\* The log lines of an agent that reports its thoughts A and then the tool B
\* it selected.
ScenarioB ==
  << <<"INFO", " - ", "Manus's thoughts:", "A">>,
     <<"INFO", " - ", "Manus selected", "B">> >>

\* The agent of task_id logs the next line of ScenarioB while agent.run is in
\* progress.
worker_reports(task_id) ==
  /\ task_id \in TaskIds
  /\ pc[task_id] = "run"
  /\ log_count < Len(ScenarioB)
  /\ log_count' = log_count + 1
  /\ Commit(logger_emit(TM, handlers, ScenarioB[log_count + 1]))
  /\ UNCHANGED <<handlers, pc, now, responses, conns, outcome, api_calls,
                 requests, reply, token_rows>>
\* The log lines of an agent that runs the same mysql_rw query twice: both
\* results carry the id r1.
RepeatedQuery ==
  << <<"INFO", " - ", "Tool", "mysql_rw", "executed:", "{id:r1}">>,
     <<"INFO", " - ", "Tool", "mysql_rw", "executed:", "{id:r1}">> >>

\* The agent of task_id logs the next line of RepeatedQuery while agent.run is
\* in progress.
worker_repeats(task_id) ==
  /\ task_id \in TaskIds
  /\ pc[task_id] = "run"
  /\ log_count < Len(RepeatedQuery)
  /\ log_count' = log_count + 1
  /\ Commit(logger_emit(TM, handlers, RepeatedQuery[log_count + 1]))
  /\ UNCHANGED <<handlers, pc, now, responses, conns, outcome, api_calls,
                 requests, reply, token_rows>>
\* The event loop shuts down while process_task is unfinished: the coroutine
\* is cancelled where it is suspended.  asyncio.CancelledError is not an
\* Exception, so neither "except Exception" runs and fail_task is not called;
\* only the "finally" around agent.run removes the handler.
process_task_cancelled(task_id) ==
  /\ task_id \in TaskIds
  /\ pc[task_id] \in {"pending", "init", "run"}
  /\ handlers' = IF pc[task_id] = "run" THEN handlers \ {task_id} ELSE handlers
  /\ pc' = [pc EXCEPT ![task_id] = "cancelled"]
  /\ outcome' = [outcome EXCEPT ![task_id] = "cancelled"]
  /\ UNCHANGED <<tasks, queues, next_uuid, now, responses, conns, published,
                 calls, log_count, api_calls, requests, reply, token_rows>>
\* ------------------------------------------------ TaskManager, called directly
Methods == {"update_task_step", "complete_task", "fail_task"}

\* The ids a caller can pass: every task id, and ids no task has.
CallIds == TaskIds \cup {UnknownTask, Len(tasks) + 1}

\* One call of a TaskManager method with any task id.
TaskManager_call(method, task_id, error) ==
  /\ Len(api_calls) < MaxCalls
  /\ Commit(CASE method = "update_task_step" ->
                   update_task_step(TM, task_id, 0, <<"X">>, "step")
              [] method = "complete_task" -> complete_task(TM, task_id)
              [] method = "fail_task" -> fail_task(TM, task_id, error))
  /\ api_calls' = Append(api_calls, [method |-> method, task_id |-> task_id,
                                     known |-> task_id \in TaskIds])
  /\ UNCHANGED <<handlers, pc, now, responses, conns, outcome, log_count,
                 requests, reply, token_rows>>
\* ---------------------------------------------------------- authentication
\* The "token" query parameter of a request.
Tokens == {None} \cup {<<token>> : token \in TokenValues}

\* The JSON body of a request: absent, or an object that validates as
\* UserInDB.  A parameter whose type is a pydantic model is read from the
\* request body.
Bodies == {None, <<[id |-> "u0", username |-> "mallory", is_active |-> TRUE]>>}

get_user_by_username(username) ==
  LET found == {user \in Users : user.username = username}
  IN IF found = {} THEN None ELSE <<CHOOSE user \in found : TRUE>>

\* SELECT user_id FROM tokens WHERE token = %s AND expires_at > NOW()
validate_token(token) ==
  LET result == {row \in token_rows : /\ row.token = token
                                      /\ row.expires_at > now}
  IN IF result = {} THEN ""
     ELSE (CHOOSE row \in result : TRUE).user_id

get_user_from_token(token) ==
  IF ~token.decodes THEN None
  ELSE IF token.sub = "" THEN None
  ELSE LET user == get_user_by_username(token.sub)
       IN IF user = None \/ ~user[1].is_active THEN None
          ELSE IF \/ validate_token(token) = ""
                  \/ validate_token(token) # user[1].id
          THEN None
          ELSE user

\* GET /tasks/{task_id}/events up to its return: the error stream of a
\* rejected request, or the StreamingResponse over task_event_generator.
task_events(c, task_id, token, current_user) ==
  /\ conns[c].state = "idle"
  /\ requests[c].verdict = "none"
  /\ LET by_token == token # None /\ current_user = None
         user == IF by_token THEN get_user_from_token(token[1])
                 ELSE current_user
         message == IF by_token /\ user = None
                    THEN "Invalid or expired token"
                    ELSE IF user = None THEN "Authentication required"
                    ELSE ""
     IN /\ requests' = [requests EXCEPT ![c] =
             [task_id |-> task_id, token |-> token,
              current_user |-> current_user,
              verdict |-> IF message = "" THEN "streaming" ELSE "rejected"]]
        /\ conns' = IF message = "" THEN conns
                    ELSE [conns EXCEPT ![c] =
                           [task |-> task_id, state |-> "closed", joined |-> 0,
                            since |-> 0, quiet |-> 0,
                            frames |-> <<Frame("error", NoId, "", <<>>,
                                               message)>>]]
  /\ UNCHANGED <<tasks, queues, handlers, pc, next_uuid, now, responses,
                 published, calls, outcome, log_count, api_calls,
                 reply, token_rows>>
\* ------------------------------------------------------------------ queries
\* sorted(task_list, key=created_at, reverse=True): the sort is stable, so
\* tasks with the same created_at keep the order they had.
RECURSIVE newest_first(_, _)
newest_first(task_list, keys) ==
  IF keys = {} THEN <<>>
  ELSE LET latest == CHOOSE k \in keys : \A other \in keys : other <= k
       IN SelectSeq(task_list, LAMBDA task : task.created_at = latest)
            \o newest_first(task_list, keys \ {latest})

sorted_tasks(task_list) ==
  newest_first(task_list,
               {task_list[i].created_at : i \in 1..Len(task_list)})

\* GET /tasks that returns the tasks in the order of the registry.
get_tasks_unsorted ==
  /\ reply' = [query |-> "get_tasks", body |-> tasks]
  /\ UNCHANGED <<tasks, queues, handlers, pc, next_uuid, now, responses,
                 conns, published, calls, outcome, log_count, api_calls,
                 requests, token_rows>>
\* GET /tasks
get_tasks ==
  /\ reply' = [query |-> "get_tasks", body |-> sorted_tasks(tasks)]
  /\ UNCHANGED <<tasks, queues, handlers, pc, next_uuid, now, responses,
                 conns, published, calls, outcome, log_count, api_calls,
                 requests, token_rows>>

\* GET /tasks/active
get_active_task ==
  /\ LET active_tasks ==
           SelectSeq(tasks, LAMBDA task : /\ task.status # "completed"
                                          /\ task.status # "failed")
         latest_task == sorted_tasks(active_tasks)[1]
     IN reply' =
          [query |-> "get_active_task",
           body |-> IF active_tasks = <<>> THEN <<>>
                    ELSE <<[id |-> latest_task.id,
                            prompt |-> latest_task.prompt,
                            status |-> latest_task.status,
                            created_at |-> latest_task.created_at]>>]
  /\ UNCHANGED <<tasks, queues, handlers, pc, next_uuid, now, responses,
                 conns, published, calls, outcome, log_count, api_calls,
                 requests, token_rows>>
\* ------------------------------------------------- task_event_generator
Opened == {c \in 1..MaxConns : conns[c].state # "idle"}

Emit(c, frame) == Append(conns[c].frames, frame)

\* The event stream opened with a status frame that leaves the steps out.
connect_without_steps(c, task_id) ==
  /\ conns[c].state = "idle"
  /\ c = Cardinality(Opened) + 1
  /\ IF task_id \notin DOMAIN queues
     THEN conns' = [conns EXCEPT ![c] =
            [task |-> task_id, state |-> "closed", joined |-> 0, since |-> 0,
             quiet |-> 0,
             frames |-> <<Frame("message", NoId, "", <<>>, "Task not found")>>]]
     ELSE conns' = [conns EXCEPT ![c] =
            [task |-> task_id, state |-> "greeting",
             joined |-> Len(published[task_id]), since |-> 0, quiet |-> 0,
             frames |-> <<Frame("status", <<"init", task_id, 0>>,
                                tasks[task_id].status, <<>>, "")>>]]
  /\ UNCHANGED <<tasks, queues, handlers, pc, next_uuid, now, responses,
                 published, calls, outcome, log_count, api_calls, requests,
                 reply, token_rows>>
\* GET /tasks/{task_id}/events up to the first yield.
connect(c, task_id) ==
  /\ conns[c].state = "idle"
  /\ c = Cardinality(Opened) + 1
  /\ IF task_id \notin DOMAIN queues
     THEN conns' = [conns EXCEPT ![c] =
            [task |-> task_id, state |-> "closed", joined |-> 0, since |-> 0,
             quiet |-> 0,
             frames |-> <<Frame("message", NoId, "", <<>>, "Task not found")>>]]
     ELSE conns' = [conns EXCEPT ![c] =
            [task |-> task_id, state |-> "greeting",
             joined |-> Len(published[task_id]), since |-> 0, quiet |-> 0,
             frames |-> <<Frame("status", <<"init", task_id, 0>>,
                                tasks[task_id].status, tasks[task_id].steps,
                                "")>>]]
  /\ UNCHANGED <<tasks, queues, handlers, pc, next_uuid, now, responses,
                 published, calls, outcome, log_count, api_calls, requests,
                 reply, token_rows>>

\* Resumed after the status frame: "if task.status == 'completed'".
after_status(c) ==
  /\ conns[c].state = "greeting"
  /\ LET task_id == conns[c].task
     IN IF tasks[task_id].status = "completed"
        THEN conns' = [conns EXCEPT ![c].state = "closed",
                         ![c].frames = Emit(c, Frame("complete",
                              <<"complete", task_id, 0>>, "", <<>>,
                              "Task completed"))]
        ELSE conns' = [conns EXCEPT ![c].state = "draining",
                                     ![c].since = now,
                                     ![c].quiet = now]
  /\ UNCHANGED <<tasks, queues, handlers, pc, next_uuid, now, responses,
                 published, calls, outcome, log_count, api_calls, requests,
                 reply, token_rows>>

\* dumps(event): a status event holds a reference to the task's steps list,
\* so the steps are read when the event is serialised.
Render(task_id, event) ==
  Frame(event.type, event.id, event.status,
        IF event.type = "status" THEN tasks[task_id].steps ELSE event.content,
        event.message)

\* The drain loop breaking after a complete event only.
drain_breaks_on_complete_only(c) ==
  /\ conns[c].state = "draining"
  /\ LET task_id == conns[c].task
         event == Head(queues[task_id])
     IN /\ queues[task_id] # <<>>
        /\ queues' = [queues EXCEPT ![task_id] = Tail(@)]
        /\ conns' = [conns EXCEPT
              ![c].frames = Emit(c, Render(task_id, event)),
              ![c].since = now,
              ![c].quiet = now,
              ![c].state = IF event.type = "complete"
                           THEN "closed" ELSE "draining"]
  /\ UNCHANGED <<tasks, handlers, pc, next_uuid, now, responses, published,
                 calls, outcome, log_count, api_calls, requests,
                 reply, token_rows>>

\* A drain loop that reads the head of the queue and leaves it there.
drain_peeks(c) ==
  /\ conns[c].state = "draining"
  /\ LET task_id == conns[c].task
         event == Head(queues[task_id])
     IN /\ queues[task_id] # <<>>
        /\ queues' = queues
        /\ conns' = [conns EXCEPT
              ![c].frames = Emit(c, Render(task_id, event)),
              ![c].since = now,
              ![c].quiet = now,
              ![c].state = IF event.type \in TerminalKinds
                           THEN "closed" ELSE "draining"]
  /\ UNCHANGED <<tasks, handlers, pc, next_uuid, now, responses, published,
                 calls, outcome, log_count, api_calls, requests,
                 reply, token_rows>>
\* queue.get() returns an event: yield it, break after complete / error.
drain(c) ==
  /\ conns[c].state = "draining"
  /\ LET task_id == conns[c].task
         event == Head(queues[task_id])
     IN /\ queues[task_id] # <<>>
        /\ queues' = [queues EXCEPT ![task_id] = Tail(@)]
        /\ conns' = [conns EXCEPT
              ![c].frames = Emit(c, Render(task_id, event)),
              ![c].since = now,
              ![c].quiet = now,
              ![c].state = IF event.type \in TerminalKinds
                           THEN "closed" ELSE "draining"]
  /\ UNCHANGED <<tasks, handlers, pc, next_uuid, now, responses, published,
                 calls, outcome, log_count, api_calls, requests,
                 reply, token_rows>>

Beats(c) ==
  Cardinality({i \in 1..Len(conns[c].frames) :
                 conns[c].frames[i].event = "keepalive"})

\* A timeout that ends the stream after its keepalive.
timeout_ends_stream(c) ==
  /\ conns[c].state = "draining"
  /\ queues[conns[c].task] = <<>>
  /\ Beats(c) < MaxBeats
  /\ conns' = [conns EXCEPT
        ![c].frames = Emit(c, Frame("keepalive", NoId, "", <<>>, "")),
        ![c].since = now,
        ![c].state = "closed"]
  /\ UNCHANGED <<tasks, queues, handlers, pc, next_uuid, now, responses,
                 published, calls, outcome, log_count, api_calls, requests,
                 reply, token_rows>>
\* asyncio.TimeoutError: wait_for gave up after KEEPALIVE_TIMEOUT seconds
\* with no event; the generator yields a keepalive and waits again.  The
\* specifications that let time pass fire it when the wait has lasted that
\* long; in the others any wait on an empty queue may time out.
timeout(c) ==
  /\ conns[c].state = "draining"
  /\ queues[conns[c].task] = <<>>
  /\ Beats(c) < MaxBeats
  /\ conns' = [conns EXCEPT
        ![c].frames = Emit(c, Frame("keepalive", NoId, "", <<>>, "")),
        ![c].since = now]
  /\ UNCHANGED <<tasks, queues, handlers, pc, next_uuid, now, responses,
                 published, calls, outcome, log_count, api_calls, requests,
                 reply, token_rows>>

\* A client disconnect that also ends the process_task coroutine of the task.
disconnect_stops_worker(c, at_yield) ==
  /\ conns[c].state \in {"greeting", "draining"}
  /\ conns[c].state = "greeting" => at_yield
  /\ conns' = [conns EXCEPT
        ![c].state = "cancelled",
        ![c].frames = IF at_yield THEN @
                      ELSE Emit(c, Frame("error", NoId, "", <<>>,
                                         "Stream cancelled"))]
  /\ pc' = [pc EXCEPT ![conns[c].task] = IF @ = "pending" THEN @ ELSE "done"]
  /\ handlers' = handlers \ {conns[c].task}
  /\ UNCHANGED <<tasks, queues, next_uuid, now, responses,
                 published, calls, outcome, log_count, api_calls, requests,
                 reply, token_rows>>
\* The client disconnects.  While the generator waits in queue.get() the
\* CancelledError is caught and an error frame is yielded; while it is
\* suspended in a yield the generator is closed without running further.
disconnect(c, at_yield) ==
  /\ conns[c].state \in {"greeting", "draining"}
  /\ conns[c].state = "greeting" => at_yield
  /\ conns' = [conns EXCEPT
        ![c].state = "cancelled",
        ![c].frames = IF at_yield THEN @
                      ELSE Emit(c, Frame("error", NoId, "", <<>>,
                                         "Stream cancelled"))]
  /\ UNCHANGED <<tasks, queues, handlers, pc, next_uuid, now, responses,
                 published, calls, outcome, log_count, api_calls, requests,
                 reply, token_rows>>

\* The clock of the event loop advances by d seconds.  A generator whose
\* queue holds an event is resumed at once, and a wait_for raises
\* TimeoutError when its wait has lasted KEEPALIVE_TIMEOUT: time does not
\* pass either of them by.
tick(d) ==
  /\ now + d <= MaxTime
  /\ \A c \in 1..MaxConns :
       conns[c].state = "draining"
         => /\ queues[conns[c].task] = <<>>
            /\ now + d <= conns[c].since + KEEPALIVE_TIMEOUT
  /\ now' = now + d
  /\ UNCHANGED <<tasks, queues, handlers, pc, next_uuid, responses, conns,
                 published, calls, outcome, log_count, api_calls, requests,
                 reply, token_rows>>

\* The wait of connection c times out.
timed_out(c) == now = conns[c].since + KEEPALIVE_TIMEOUT /\ timeout(c)

\* queue.get() in the generator of a connection that is not followed: the
\* event at the head of the task's queue is gone for every other reader.
other_get(task_id) ==
  /\ queues[task_id] # <<>>
  /\ queues' = [queues EXCEPT ![task_id] = Tail(@)]
  /\ UNCHANGED <<tasks, handlers, pc, next_uuid, now, responses, conns,
                 published, calls, outcome, log_count, api_calls, requests,
                 reply, token_rows>>

\* --------------------------------------------------------- specifications
\* POST /tasks requests, each arriving some time after the one before.
NextRequests ==
  \E caller \in Callers, raw \in Prompts, gap \in Gaps :
    create_task(caller, raw, gap)

\* POST /tasks requests that all arrive at the same clock reading.
NextBurst ==
  \E caller \in Callers, raw \in Prompts : create_task(caller, raw, 0)

\* The process_task coroutines and their agents.
NextWorkers ==
  \/ \E task_id \in TaskIds : process_task_begin(task_id)
  \/ \E task_id \in TaskIds : initialize_returns(task_id)
  \/ \E task_id \in TaskIds, error \in Errors : initialize_raises(task_id, error)
  \/ \E task_id \in TaskIds, message \in Lines : worker_logs(task_id, message)
  \/ \E task_id \in TaskIds : worker_returns(task_id)
  \/ \E task_id \in TaskIds, error \in Errors : worker_raises(task_id, error)

\* The log lines whose kind could end a stream (error, complete), and one line
\* of another kind.
LoudLines ==
  {message \in Lines :
     classify(cleaned(message)) \in TerminalKinds \cup {"think"}}

\* The process_task coroutines, with agents that log only LoudLines.
NextLoudWorkers ==
  \/ \E task_id \in TaskIds : process_task_begin(task_id)
  \/ \E task_id \in TaskIds : initialize_returns(task_id)
  \/ \E task_id \in TaskIds, error \in Errors : initialize_raises(task_id, error)
  \/ \E task_id \in TaskIds, message \in LoudLines :
       worker_logs(task_id, message)
  \/ \E task_id \in TaskIds : worker_returns(task_id)
  \/ \E task_id \in TaskIds, error \in Errors : worker_raises(task_id, error)

\* The stream side: the connections of the event stream endpoint.
NextStream ==
  \/ \E c \in 1..MaxConns, task_id \in TaskIds \cup {UnknownTask} :
       connect(c, task_id)
  \/ \E c \in 1..MaxConns : after_status(c)
  \/ \E c \in 1..MaxConns : drain(c)
  \/ \E c \in 1..MaxConns : timeout(c)
  \/ \E c \in 1..MaxConns, at_yield \in BOOLEAN : disconnect(c, at_yield)

NextTasks == NextBurst \/ NextWorkers

NextLoudTasks == NextBurst \/ NextLoudWorkers

NextTimedTasks == NextRequests \/ NextWorkers

\* One followed connection; every other connection is only its queue.get().
NextObserved ==
  \/ \E task_id \in TaskIds \cup {UnknownTask} : connect(1, task_id)
  \/ after_status(1)
  \/ drain(1)
  \/ timeout(1)
  \/ \E at_yield \in BOOLEAN : disconnect(1, at_yield)
  \/ \E task_id \in TaskIds : other_get(task_id)

NextOneTask == NextWorkers \/ NextStream

NextOneReader == NextWorkers \/ NextObserved

\* One task whose agent reports ScenarioB and then returns, and one
\* connection to it.
NextScenario ==
  \/ process_task_begin(1)
  \/ initialize_returns(1)
  \/ worker_reports(1)
  \/ log_count = Len(ScenarioB) /\ worker_returns(1)
  \/ connect(1, 1)
  \/ after_status(1)
  \/ drain(1)
  \/ timeout(1)
\* The task side of a process that may be shut down.
NextShutdown ==
  \/ NextBurst
  \/ NextLoudWorkers
  \/ \E task_id \in TaskIds : process_task_cancelled(task_id)
\* One task whose agent logs RepeatedQuery, and one connection to it.
NextRepeats ==
  \/ process_task_begin(1)
  \/ initialize_returns(1)
  \/ worker_repeats(1)
  \/ worker_returns(1)
  \/ connect(1, 1)
  \/ after_status(1)
  \/ drain(1)
  \/ timeout(1)
\* The TaskManager driven by its callers: POST /tasks and direct calls.
NextRegistry ==
  \/ NextBurst
  \/ \E method \in Methods, task_id \in CallIds, error \in Errors :
       TaskManager_call(method, task_id, error)
\* One task, its process_task coroutine and one request for its event stream,
\* whose generator runs once task_events has returned the stream.
NextAuth ==
  \/ NextWorkers
  \/ \E task_id \in TaskIds \cup {UnknownTask}, token \in Tokens,
        current_user \in Bodies :
       task_events(1, task_id, token, current_user)
  \/ requests[1].verdict = "streaming" /\ connect(1, requests[1].task_id)
  \/ after_status(1)
  \/ drain(1)
  \/ timeout(1)
\* One task, its process_task coroutine and one connection to it, with the
\* clock: the agent logs LoudLines at any time.
Ticks == {150, 300}

NextHeartbeat ==
  \/ NextLoudWorkers
  \/ connect(1, 1)
  \/ after_status(1)
  \/ drain(1)
  \/ timed_out(1)
  \/ \E d \in Ticks : tick(d)
\* Requests, process_task coroutines whose agents log nothing, and the two
\* queries of the registry.
NextQueries ==
  \/ NextRequests
  \/ \E task_id \in TaskIds : process_task_begin(task_id)
  \/ \E task_id \in TaskIds : initialize_returns(task_id)
  \/ \E task_id \in TaskIds, error \in Errors :
       initialize_raises(task_id, error)
  \/ \E task_id \in TaskIds : worker_returns(task_id)
  \/ \E task_id \in TaskIds, error \in Errors : worker_raises(task_id, error)
  \/ get_tasks
  \/ get_active_task
\* One task whose agent logs LoudLines, and two connections to it.
NextTwoReaders ==
  \/ NextLoudWorkers
  \/ \E c \in {1, 2} : connect(c, 1)
  \/ \E c \in {1, 2} : after_status(c)
  \/ \E c \in {1, 2} : drain(c)
  \/ timeout(1)
  \/ \E c \in {1, 2}, at_yield \in BOOLEAN : disconnect(c, at_yield)
\* POST /tasks with every kind of prompt, and process_task coroutines whose
\* agents log nothing.
AnyPrompts == Prompts \cup {<<>>, <<" ", " ">>}

NextValidation ==
  \/ \E caller \in Callers, raw \in AnyPrompts : create_task(caller, raw, 0)
  \/ \E task_id \in TaskIds : process_task_begin(task_id)
  \/ \E task_id \in TaskIds : initialize_returns(task_id)
  \/ \E task_id \in TaskIds, error \in Errors :
       initialize_raises(task_id, error)
  \/ \E task_id \in TaskIds : worker_returns(task_id)
  \/ \E task_id \in TaskIds, error \in Errors : worker_raises(task_id, error)
Next == NextRequests \/ NextWorkers \/ NextStream

\* The state after one accepted POST /tasks at time 0.
InitOneTask ==
  LET raw == <<" ", "X", " ">>
      tm == TaskManager_create_task(
              [tasks |-> <<>>, queues |-> <<>>, next_uuid |-> <<>>,
               published |-> <<>>, calls |-> <<>>], strip(raw), 0)
  IN /\ tasks = tm.tasks
     /\ queues = tm.queues
     /\ next_uuid = tm.next_uuid
     /\ published = tm.published
     /\ calls = tm.calls
     /\ handlers = {}
     /\ pc = <<"pending">>
     /\ now = 0
     /\ responses = <<Response("alice", raw, 0, 200, 1, FALSE)>>
     /\ conns = [c \in 1..MaxConns |-> Idle]
     /\ outcome = <<"none">>
     /\ log_count = 0
     /\ api_calls = <<>>
     /\ requests = [c \in 1..MaxConns |-> NoRequest]
     /\ reply = NoReply
     /\ token_rows = StoredRows

\* A scheduled process_task coroutine is run by the event loop, and the agent
\* terminates: it returns or raises.
Progress(task_id) ==
  \/ process_task_begin(task_id)
  \/ initialize_returns(task_id)
  \/ \E error \in Errors : initialize_raises(task_id, error)
  \/ worker_returns(task_id)
  \/ \E error \in Errors : worker_raises(task_id, error)

\* A generator that can run is run: the client keeps reading.
Reads(c) == after_status(c) \/ drain(c)

\* The whole system.
Spec == Init /\ [][Next]_vars

\* The task side: requests and process_task coroutines, no stream connection.
\* No action of a connection assigns tasks, published, calls, pc, outcome,
\* handlers or responses, so what holds of them here holds with connections.
SpecTasks == Init /\ [][NextTasks]_vars

\* The task side with the time between the requests.
SpecRequests == Init /\ [][NextTimedTasks]_vars

\* Some process_task coroutine that can run is run.
SomeProgress == \E task_id \in TaskIds : Progress(task_id)

\* The task side with fair scheduling.  The text of a log line decides the
\* kind of the event it publishes and nothing of the control flow, so the
\* agents log LoudLines.
FairTasks == Init /\ [][NextLoudTasks]_vars /\ WF_vars(SomeProgress)

\* One task, its process_task coroutine and the stream connections to it.
SpecStream == InitOneTask /\ [][NextOneTask]_vars

\* One task, its process_task coroutine, one followed connection and any
\* number of other readers of the task's queue.
SpecReader == InitOneTask /\ [][NextOneReader]_vars

\* The run of ScenarioB watched by one connection.
SpecScenario == InitOneTask /\ [][NextScenario]_vars
\* The task side with shutdown, under fair scheduling of the coroutines that
\* are left.
FairShutdown == Init /\ [][NextShutdown]_vars /\ WF_vars(SomeProgress)
\* The run of RepeatedQuery watched by one connection.
SpecRepeats == InitOneTask /\ [][NextRepeats]_vars
\* The registry under every order of task creation and method calls.
SpecRegistry == Init /\ [][NextRegistry]_vars
\* One task and one request for its event stream, with any credentials.
SpecAuth == InitOneTask /\ [][NextAuth]_vars
\* One task and one connection to it in time.
SpecHeartbeat == InitOneTask /\ [][NextHeartbeat]_vars
\* The registry and its queries.
SpecQueries == Init /\ [][NextQueries]_vars
\* One task read by two connections.
SpecTwoReaders == InitOneTask /\ [][NextTwoReaders]_vars
\* Creation requests with valid, empty and blank prompts.
SpecValidation == Init /\ [][NextValidation]_vars
FairStream ==
  /\ SpecStream
  /\ WF_vars(Progress(1))
  /\ \A c \in 1..MaxConns : WF_vars(Reads(c))

\* ----------------------------------------------------------------- claims
TerminalEvents(task_id) ==
  {i \in 1..Len(published[task_id]) :
     published[task_id][i].type \in TerminalKinds}

\* C1: at most one event of kind complete or error is ever published on a
\* task's channel, and exactly one once process_task has finished.
C1_OneTerminalEvent ==
  \A task_id \in TaskIds :
    /\ Cardinality(TerminalEvents(task_id)) <= 1
    /\ pc[task_id] = "done" => Cardinality(TerminalEvents(task_id)) = 1

\* The frames of a connection that render an event taken from the queue.
FromQueue(frame) == frame.id[1] \notin {"none", "init", "complete"}

QueueFrames(c) == SelectSeq(conns[c].frames, FromQueue)

Ids(events) == [i \in 1..Len(events) |-> events[i].id]

Emitted(c) == {conns[c].frames[i].id : i \in 1..Len(conns[c].frames)}

LastQueueFrame(c) == QueueFrames(c)[Len(QueueFrames(c))]

\* The connection ended because it read a complete or error event.
ReadTerminal(c) ==
  /\ conns[c].state = "closed"
  /\ QueueFrames(c) # <<>>
  /\ LastQueueFrame(c).event \in TerminalKinds

IndexOf(task_id, id) ==
  CHOOSE i \in 1..Len(published[task_id]) : published[task_id][i].id = id

\* C2: reading is non-destructive: a connection that has read the task's
\* stream to a terminal event has been delivered every event published
\* between its connecting and that terminal event, whatever the other
\* connections to the task have been delivered.
C2_NonDestructiveRead ==
  \A c \in 1..MaxConns :
    ReadTerminal(c) =>
      \A i \in (conns[c].joined + 1)..
               IndexOf(conns[c].task, LastQueueFrame(c).id) :
        published[conns[c].task][i].id \in Emitted(c)

\* C3: after the status snapshot a connection is delivered the events
\* published after the snapshot, each once and in publish order, and none of
\* the events published before the snapshot.
C3_ReplayNoGapNoDuplicate ==
  \A c \in 1..MaxConns :
    conns[c].state \in {"draining", "closed"} /\ conns[c].task \in TaskIds =>
      LET after == SubSeq(published[conns[c].task], conns[c].joined + 1,
                          Len(published[conns[c].task]))
          got == Ids(QueueFrames(c))
      IN /\ Len(got) <= Len(after)
         /\ got = SubSeq(Ids(after), 1, Len(got))

HasTerminalFrame(c) ==
  \E i \in 1..Len(conns[c].frames) : conns[c].frames[i].event \in TerminalKinds

\* C4: every connection to an existing task that stays open eventually
\* receives a complete or error frame.
C4_EveryConnectionEnds ==
  \A c \in 1..MaxConns :
    (conns[c].state \in {"greeting", "draining"})
      ~> (HasTerminalFrame(c) \/ conns[c].state = "cancelled")

\* C5: every created task eventually has status Completed or Failed.
\* Again and again every task created so far is Completed or Failed, so no
\* task stays Pending or Running for ever.
C5_EveryTaskEnds ==
  []<>(\A task_id \in TaskIds : IsTerminal(tasks[task_id].status))

C5_Witness ==
  \E task_id \in TaskIds :
    /\ tasks[task_id].status = "completed"
    /\ outcome[task_id] = "returned"
    /\ Len(tasks[task_id].steps) > 0

\* C6: two accepted creation requests of the same caller with the same prompt
\* less than the dedupe window apart resolve to one task, and the second is
\* answered deduped=true.
C6_DedupWithinWindow ==
  \A i, j \in 1..Len(responses) :
    /\ i < j
    /\ responses[i].code = 200 /\ responses[j].code = 200
    /\ responses[i].caller = responses[j].caller
    /\ strip(responses[i].prompt) = strip(responses[j].prompt)
    /\ responses[j].at - responses[i].at < TASK_DEDUPE_WINDOW_SECONDS
    => /\ responses[j].task_id = responses[i].task_id
       /\ responses[j].deduped

\* C7: once a task is Completed or Failed, no step is appended to it and
\* nothing is published on its channel.
C7_NoStepAfterTerminal ==
  [][\A task_id \in TaskIds :
       IsTerminal(tasks[task_id].status) =>
         /\ tasks'[task_id].steps = tasks[task_id].steps
         /\ published'[task_id] = published[task_id]]_vars

StatusMove(old, new) ==
  \/ new = old
  \/ old = "pending" /\ new = "running"
  \/ old = "running" /\ IsTerminal(new)

\* C8: a task is created Pending, is Running from the moment process_task
\* begins, and its status only moves Pending -> Running -> Completed or
\* Failed; a terminal status never changes.
C8_Lifecycle ==
  [][\A task_id \in DOMAIN tasks' :
       /\ (pc'[task_id] = "pending") <=> (tasks'[task_id].status = "pending")
       /\ IF task_id \in DOMAIN tasks
          THEN StatusMove(tasks[task_id].status, tasks'[task_id].status)
          ELSE tasks'[task_id].status = "pending"]_vars

C8_Witness ==
  /\ \E task_id \in TaskIds : tasks[task_id].status = "completed"
  /\ \E task_id \in TaskIds : IsFailed(tasks[task_id].status)

\* C9: when process_task has ended, exactly one of complete_task and
\* fail_task has been called, once: complete_task iff the worker returned,
\* fail_task iff the worker or its initialisation raised; neither is called
\* before.
C9_OneTerminalCall ==
  \A task_id \in TaskIds :
    IF pc[task_id] = "done"
    THEN /\ Len(calls[task_id]) = 1
         /\ calls[task_id][1] = "complete_task" <=> outcome[task_id] = "returned"
         /\ calls[task_id][1] = "fail_task"
              <=> outcome[task_id] \in {"raised", "init_raised"}
    ELSE calls[task_id] = <<>> /\ outcome[task_id] = "none"

C9_Witness ==
  /\ \E task_id \in TaskIds :
       outcome[task_id] = "returned" /\ calls[task_id] = <<"complete_task">>
  /\ \E task_id \in TaskIds :
       outcome[task_id] \in {"raised", "init_raised"}
       /\ calls[task_id] = <<"fail_task">>

\* C10: a complete or error frame is the last frame of its connection, and
\* the stream is closed once it has been emitted.
C10_TerminalFrameIsLast ==
  \A c \in 1..MaxConns :
    \A i \in 1..Len(conns[c].frames) :
      conns[c].frames[i].event \in TerminalKinds =>
        /\ i = Len(conns[c].frames)
        /\ conns[c].state \in {"closed", "cancelled"}

C10_Witness ==
  \E c \in 1..MaxConns :
    /\ ReadTerminal(c)
    /\ Len(conns[c].frames) >= 3

RECURSIVE IsSubsequence(_, _)
IsSubsequence(s, t) ==
  IF s = <<>> THEN TRUE
  ELSE IF t = <<>> THEN FALSE
  ELSE IF Head(s) = Head(t) THEN IsSubsequence(Tail(s), Tail(t))
  ELSE IsSubsequence(s, Tail(t))

\* C11: a connection emits the events of its task in publish order: the
\* events it has emitted are, in the order emitted, a subsequence of the
\* events published for the task.
C11_PublishOrder ==
  \A c \in 1..MaxConns :
    conns[c].task \in TaskIds =>
      IsSubsequence(Ids(QueueFrames(c)), Ids(published[conns[c].task]))

C11_Witness ==
  \E c \in 1..MaxConns :
    /\ Len(QueueFrames(c)) >= 3
    /\ Len(published[conns[c].task]) > Len(QueueFrames(c))

\* C12: the first frame of a connection to an existing task is the status
\* frame with the task's status and steps as they are when the connection is
\* opened; it stays the first frame, and an event is drained only after it.
C12_StatusFrameFirst ==
  [][\A c \in 1..MaxConns :
       /\ (conns[c].state = "idle" /\ conns'[c].state # "idle"
           /\ conns'[c].task \in DOMAIN tasks)
            => conns'[c].frames =
                 <<Frame("status", <<"init", conns'[c].task, 0>>,
                         tasks[conns'[c].task].status,
                         tasks[conns'[c].task].steps, "")>>
       /\ conns[c].frames # <<>>
            => /\ conns'[c].frames # <<>>
               /\ conns'[c].frames[1] = conns[c].frames[1]
       /\ Len(QueueFrames(c))' > Len(QueueFrames(c))
            => /\ conns[c].frames # <<>>
               /\ conns[c].frames[1].event = "status"
               /\ conns[c].frames[1].id[1] = "init"]_vars

C12_Witness ==
  \E c \in 1..MaxConns :
    /\ conns[c].frames # <<>>
    /\ conns[c].frames[1].event = "status"
    /\ conns[c].frames[1].steps # <<>>
    /\ QueueFrames(c) # <<>>

\* C13: a connection opened on a task that is already Completed or Failed
\* emits the status snapshot, then at once the terminal frame of that status
\* (complete for Completed, error for Failed), and closes without reading the
\* task's queue.
C13_TerminalAtConnect ==
  \A c \in 1..MaxConns :
    (/\ conns[c].task \in TaskIds
     /\ conns[c].frames # <<>>
     /\ IsTerminal(conns[c].frames[1].status)) =>
      /\ conns[c].state \in {"greeting", "closed", "cancelled"}
      /\ QueueFrames(c) = <<>>
      /\ conns[c].state = "closed" =>
           /\ Len(conns[c].frames) = 2
           /\ conns[c].frames[2].event =
                IF conns[c].frames[1].status = "completed"
                THEN "complete" ELSE "error"

Kinds(frames) == [i \in 1..Len(frames) |-> frames[i].event]

IsFrame(frame) == frame.event # "keepalive"

\* C14: when the worker has reported think:A and tool:B and returned, a
\* connection opened before the first report that has read the task's events
\* to the terminal one has emitted exactly the frames status, think, tool, result, status, complete
\* (keep-alive comment lines aside).
C14_ScenarioB ==
  \A c \in 1..MaxConns :
    (/\ conns[c].task \in TaskIds
     /\ ReadTerminal(c)
     /\ outcome[conns[c].task] = "returned"
     /\ log_count = Len(ScenarioB)
     /\ \A i \in 1..conns[c].joined :
          published[conns[c].task][i].type \notin {"think", "tool"}) =>
      Kinds(SelectSeq(conns[c].frames, IsFrame))
        = <<"status", "think", "tool", "result", "status", "complete">>

\* C15: complete_task is called only after a step of kind result with the
\* value the worker returned has been appended: the last step of a Completed
\* task is a result step.
C15_ResultStepBeforeComplete ==
  \A task_id \in TaskIds :
    tasks[task_id].status = "completed" =>
      /\ tasks[task_id].steps # <<>>
      /\ tasks[task_id].steps[Len(tasks[task_id].steps)].type = "result"

\* C16: when agent.run raises with message m, process_task ends with the
\* task Failed(m), exactly one error event carrying m has been published, and
\* a connection to the task that has ended did so on an error frame carrying m.
C16_WorkerRaises ==
  \A task_id \in TaskIds :
    outcome[task_id] = "raised" =>
      \E error \in Errors :
        /\ pc[task_id] = "done"
        /\ tasks[task_id].status = FailedStatus(error)
        /\ Cardinality({i \in 1..Len(published[task_id]) :
                          /\ published[task_id][i].type = "error"
                          /\ published[task_id][i].message = error}) = 1
        /\ \A c \in 1..MaxConns :
             (conns[c].task = task_id /\ conns[c].state = "closed") =>
               /\ conns[c].frames[Len(conns[c].frames)].event = "error"
               /\ conns[c].frames[Len(conns[c].frames)].message = error

ProgressKinds == {"think", "tool", "act", "step", "result"}

IsProgress(event) == event.type \in ProgressKinds

\* C17: the progress events (think, tool, act, step, result) published on a
\* task's channel are, one for one and in order, the records of the task's
\* steps.
C17_StepsMirrorEvents ==
  \A task_id \in TaskIds :
    LET progress == SelectSeq(published[task_id], IsProgress)
        steps == tasks[task_id].steps
    IN /\ Len(progress) = Len(steps)
       /\ \A i \in 1..Len(steps) :
            /\ progress[i].type = steps[i].type
            /\ progress[i].content = steps[i].result

\* A step of a stream connection: a connection changes, or an event leaves a
\* queue.
StreamStep ==
  \/ conns' # conns
  \/ \E task_id \in TaskIds : Len(queues'[task_id]) < Len(queues[task_id])

\* C18: no step of a stream connection (connect, drain, keep-alive,
\* disconnect) changes a task's status or steps, what was published or
\* called, or the position and log handler of its process_task coroutine;
\* and while a connection is cancelled the running worker of its task can
\* still log and return.
C18_StreamLeavesTaskAlone ==
  /\ [][StreamStep =>
          UNCHANGED <<tasks, pc, handlers, outcome, calls, published>>]_vars
  /\ [](\A c \in 1..MaxConns :
          (/\ conns[c].state = "cancelled"
           /\ conns[c].task \in TaskIds
           /\ pc[conns[c].task] = "run") =>
            /\ ENABLED worker_returns(conns[c].task)
            /\ log_count < MaxLogs =>
                 ENABLED (\E message \in Lines :
                            worker_logs(conns[c].task, message)))

C18_Witness ==
  \E c \in 1..MaxConns :
    /\ conns[c].state = "cancelled"
    /\ conns[c].task \in TaskIds
    /\ conns[c].frames[1].status = "running"
    /\ tasks[conns[c].task].status = "completed"
    /\ Len(tasks[conns[c].task].steps) > Len(conns[c].frames[1].steps)

\* C19: a connection cancelled by a client disconnect emits no further frame:
\* neither in the step that cancels it nor afterwards.
C19_NoFrameAfterCancel ==
  [][\A c \in 1..MaxConns :
       conns'[c].state = "cancelled" =>
         conns'[c].frames = conns[c].frames]_vars

\* C20: a task whose process_task coroutine was cancelled is eventually
\* Failed by a call of fail_task: it does not stay Pending or Running.
C20_CancelledTaskFails ==
  \A task_id \in 1..MaxRequests :
    (task_id \in TaskIds /\ outcome[task_id] = "cancelled")
      ~> (/\ task_id \in TaskIds
          /\ tasks[task_id].status \notin {"pending", "running"}
          /\ calls[task_id] # <<>>)

\* C22: no two frames emitted on one connection carry the same event id.
C22_NoDuplicateIds ==
  \A c \in 1..MaxConns :
    \A i, j \in 1..Len(conns[c].frames) :
      (i < j /\ conns[c].frames[i].id # NoId)
        => conns[c].frames[i].id # conns[c].frames[j].id

\* The capacity C of a task's event channel, scaled to the model.
ChannelCapacity == 3

\* C23: a task's event channel never holds more than C undelivered events.
C23_BoundedChannel ==
  \A task_id \in TaskIds : Len(queues[task_id]) <= ChannelCapacity

FromCompleteTask(task_id) ==
  {i \in 1..Len(published[task_id]) :
     published[task_id][i].id[1] = "status-complete"}

\* C24: every call of complete_task leaves the task Completed and publishes a
\* status event (status completed) directly followed by one complete event
\* with the same id; these two are the last events published for the task.
C24_CompleteTaskEvents ==
  \A task_id \in TaskIds :
    /\ Cardinality(FromCompleteTask(task_id))
         = Len(SelectSeq(calls[task_id], LAMBDA call : call = "complete_task"))
    /\ \A i \in FromCompleteTask(task_id) :
         /\ i + 1 = Len(published[task_id])
         /\ published[task_id][i].type = "status"
         /\ published[task_id][i].status = "completed"
         /\ published[task_id][i + 1].type = "complete"
         /\ published[task_id][i + 1].id
              = Prefixed("", published[task_id][i].id)
         /\ tasks[task_id].status = "completed"

C24_Witness ==
  /\ \E task_id \in TaskIds :
       /\ FromCompleteTask(task_id) # {}
       /\ tasks[task_id].steps # <<>>
  /\ \E task_id \in TaskIds :
       /\ FromCompleteTask(task_id) = {}
       /\ tasks[task_id].steps # <<>>

IsPrefix(s, t) == Len(s) <= Len(t) /\ s = SubSeq(t, 1, Len(s))

\* C25: the steps of a task are append-only: in every step of an execution
\* the task's steps before are a prefix of its steps after.
C25_StepsAppendOnly ==
  [][\A task_id \in TaskIds :
       IsPrefix(tasks[task_id].steps, tasks'[task_id].steps)]_vars

C25_Witness ==
  \E task_id \in TaskIds :
    /\ Len(tasks[task_id].steps) >= 2
    /\ tasks[task_id].steps[1] # tasks[task_id].steps[2]

\* C26: in every state the tasks of the registry are the tasks that have a
\* queue, every task is stored under its own id, no two tasks share an id,
\* and every stored task is complete (id, prompt, created_at, status, steps).
C26_CreateAtomic ==
  /\ DOMAIN tasks = DOMAIN queues
  /\ \A task_id \in TaskIds :
       /\ DOMAIN tasks[task_id]
            = {"id", "prompt", "created_at", "status", "steps"}
       /\ tasks[task_id].id = task_id
       /\ tasks[task_id].prompt # <<>>
  /\ \A i, j \in TaskIds : i # j => tasks[i].id # tasks[j].id

C26_Witness ==
  /\ Cardinality(TaskIds) >= 2
  /\ \E i, j \in TaskIds :
       tasks[i].status = "pending" /\ tasks[j].status = "running"


\* C28: a streaming request for a task id that is not in the registry opens
\* no stream: its connection never carries a frame.
C28_TaskNotFoundSynchronous ==
  \A c \in 1..MaxConns :
    conns[c].task \notin TaskIds => conns[c].frames = <<>>

EventKinds ==
  {"connected", "status", "think", "tool", "act", "step", "result",
   "complete", "error"}

\* C29: every event published on a task's queue and every frame emitted on
\* a stream has a kind in EventKinds.
C29_KnownKinds ==
  /\ \A task_id \in TaskIds : \A i \in 1..Len(published[task_id]) :
       published[task_id][i].type \in EventKinds
  /\ \A c \in 1..MaxConns : \A i \in 1..Len(conns[c].frames) :
       conns[c].frames[i].event \in EventKinds


\* C27: a call of update_task_step, complete_task or fail_task with a task
\* id that is not in the registry changes nothing: no task is created and no
\* task's status, steps or queue changes.
C27_UnknownIdIgnored ==
  [][(/\ Len(api_calls') = Len(api_calls) + 1
      /\ ~api_calls'[Len(api_calls')].known)
     => /\ DOMAIN tasks' = DOMAIN tasks
        /\ UNCHANGED <<tasks, queues, next_uuid, published, calls>>]_vars

C27_Witness ==
  /\ \E task_id \in TaskIds : tasks[task_id].steps # <<>>
  /\ Len(api_calls) = MaxCalls
  /\ ~api_calls[MaxCalls].known


\* The request on connection c presented a token that validates to an
\* active user.
Authenticated(c) ==
  /\ requests[c].token # None
  /\ get_user_from_token(requests[c].token[1]) # None

\* C30: the event stream is started only for a request whose token validates
\* to an active user; any other request receives no status snapshot and no
\* task event, whatever its body carries.
C30_StreamsAuthenticated ==
  \A c \in 1..MaxConns :
    (requests[c].verdict # "none" /\ ~Authenticated(c))
      => /\ requests[c].verdict = "rejected"
         /\ \A i \in 1..Len(conns[c].frames) :
              /\ conns[c].frames[i].event = "error"
              /\ conns[c].frames[i].id = NoId


KeepAlive == Frame("keepalive", NoId, "", <<>>, "")

\* Connection c emits a frame in this step.
Emits(c) == Len(conns'[c].frames) > Len(conns[c].frames)

C31_ClassifyPure ==
  /\ \A task_id \in handlers, message \in Lines :
       event_type_chain(TM, task_id, cleaned(message)) = TM
  /\ \A a, b \in TaskIds :
       \A i \in 1..Len(published[a]), j \in 1..Len(published[b]) :
         (/\ published[a][i].content # <<>>
          /\ published[a][i].content = published[b][j].content)
           => published[a][i].type = published[b][j].type


\* C32: the reply of GET /tasks holds every task of the registry exactly
\* once, as it is in the registry, ordered by created_at with the newest
\* first, and the query leaves the registry as it was.
C32_ListTasks ==
  [][(reply' # reply /\ reply'.query = "get_tasks")
     => /\ Len(reply'.body) = Len(tasks)
        /\ \A task_id \in TaskIds :
             /\ Cardinality({i \in 1..Len(reply'.body) :
                               reply'.body[i].id = task_id}) = 1
             /\ \E i \in 1..Len(reply'.body) :
                  reply'.body[i] = tasks[task_id]
        /\ \A i \in 1..(Len(reply'.body) - 1) :
             reply'.body[i].created_at >= reply'.body[i + 1].created_at
        /\ UNCHANGED <<tasks, queues, published, pc>>]_vars

C32_Witness ==
  /\ reply.query = "get_tasks"
  /\ Len(reply.body) = 2
  /\ reply.body[1].id = 2
  /\ reply.body[1].created_at > reply.body[2].created_at


\* C37: the reply of GET /tasks/active is a task that is neither completed
\* nor failed and is at least as new as every other such task, and it is
\* empty (no_active_task) when every task is completed or failed.
C37_ActiveTask ==
  [][(reply' # reply /\ reply'.query = "get_active_task")
     => LET live == {task_id \in TaskIds : ~IsTerminal(tasks[task_id].status)}
        IN IF live = {} THEN reply'.body = <<>>
           ELSE /\ reply'.body # <<>>
                /\ reply'.body[1].id \in live
                /\ \A task_id \in live :
                     tasks[task_id].created_at <= reply'.body[1].created_at]_vars


\* C33: every step of the system is taken by one request or one worker, and
\* it appends steps and publishes events for the task of that worker only:
\* no step changes the steps or the published events of two tasks.
C33_TaskIsolation ==
  [][\A a, b \in TaskIds :
       (/\ \/ tasks'[a].steps # tasks[a].steps
           \/ published'[a] # published[a]
        /\ \/ tasks'[b].steps # tasks[b].steps
           \/ published'[b] # published[b])
       => a = b]_vars


\* C34: a connection that ended on a complete event belongs to a task whose
\* status is completed, and one that ended on an error event to a task that
\* has failed.
C34_TerminalFrameMeansTerminalTask ==
  \A c \in 1..MaxConns :
    ReadTerminal(c) =>
      IF LastQueueFrame(c).event = "complete"
      THEN tasks[conns[c].task].status = "completed"
      ELSE IsFailed(tasks[conns[c].task].status)


\* C35: once the process_task coroutine of a task has ended, the log handler
\* of that task is no longer registered.
C35_HandlerRemoved ==
  \A task_id \in TaskIds : pc[task_id] = "done" => task_id \notin handlers


\* The connections that have emitted the event with this id.
EmittedOn(id) ==
  {c \in 1..MaxConns :
     \E i \in 1..Len(QueueFrames(c)) : QueueFrames(c)[i].id = id}

\* The number of frames that render events taken from queues.
RECURSIVE QueueFrameCount(_)
QueueFrameCount(cs) ==
  IF cs = {} THEN 0
  ELSE LET c == CHOOSE x \in cs : TRUE
       IN Len(QueueFrames(c)) + QueueFrameCount(cs \ {c})

\* C36: the events published on a task's queue and no longer in it are the
\* events emitted as frames, each on exactly one connection and once; the
\* events still in the queue have been emitted on none.
C36_EventConservation ==
  /\ \A task_id \in TaskIds :
       LET taken == Len(published[task_id]) - Len(queues[task_id])
       IN /\ queues[task_id]
               = SubSeq(published[task_id], taken + 1, Len(published[task_id]))
          /\ \A i \in 1..Len(published[task_id]) :
               Cardinality(EmittedOn(published[task_id][i].id))
                 = IF i <= taken THEN 1 ELSE 0
  /\ QueueFrameCount(1..MaxConns)
       = Len(published[1]) - Len(queues[1])

C36_Witness ==
  /\ QueueFrames(1) # <<>>
  /\ QueueFrames(2) # <<>>
  /\ queues[1] # <<>>


\* C38: a POST /tasks whose prompt is empty or holds only whitespace is
\* answered with 400 and changes nothing: no task, no queue, no worker.
C38_BlankPromptRejected ==
  [][Len(responses') = Len(responses) + 1
     => LET response == responses'[Len(responses')]
        IN (\A i \in 1..Len(response.prompt) : response.prompt[i] = " ")
             => /\ response.code = 400
                /\ UNCHANGED <<tasks, queues, pc, handlers, published,
                               next_uuid, outcome>>]_vars

C38_Witness ==
  /\ \E i \in 1..Len(responses) :
       responses[i].code = 400 /\ responses[i].prompt = <<>>
  /\ \E i \in 1..Len(responses) :
       responses[i].code = 400 /\ responses[i].prompt # <<>>

\* ------------------------------------------------------------ tokens table
\* The rows of the tokens table that belong to a user.
user_rows(user_id) == {row \in token_rows : row.user_id = user_id}

\* The expires_at of a stored token: already past, reached while the server
\* runs, and a full lifetime ahead.
Expiries == {0, 300, ACCESS_TOKEN_EXPIRE}

\* store_active_token without its DELETE: the earlier rows of the user stay.
store_active_token_keeps_rows(user_id, token, expires_at) ==
  /\ token_rows' =
       token_rows \cup {[user_id |-> user_id, token |-> token,
                         expires_at |-> expires_at]}
  /\ reply' = [query |-> "store_active_token",
               body |-> <<user_id, token, expires_at>>]
  /\ UNCHANGED <<tasks, queues, handlers, pc, next_uuid, now, responses,
                 conns, published, calls, outcome, log_count, api_calls,
                 requests>>
\* DELETE FROM tokens WHERE user_id = %s, then INSERT of the new row, in one
\* transaction.
store_active_token(user_id, token, expires_at) ==
  /\ token_rows' =
       (token_rows \ user_rows(user_id))
         \cup {[user_id |-> user_id, token |-> token,
                expires_at |-> expires_at]}
  /\ reply' = [query |-> "store_active_token",
               body |-> <<user_id, token, expires_at>>]
  /\ UNCHANGED <<tasks, queues, handlers, pc, next_uuid, now, responses,
                 conns, published, calls, outcome, log_count, api_calls,
                 requests>>

\* The rows SELECT * FROM tokens WHERE user_id = %s AND expires_at > NOW()
\* finds.
active_rows(user_id) == {row \in user_rows(user_id) : row.expires_at > now}

\* get_active_token: fetchone() of the rows found, None when there is none.
get_active_token(user_id) ==
  /\ \E result \in IF active_rows(user_id) = {} THEN {None}
                   ELSE {<<row>> : row \in active_rows(user_id)} :
       reply' = [query |-> "get_active_token", body |-> <<user_id, result>>]
  /\ UNCHANGED <<tasks, queues, handlers, pc, next_uuid, now, responses,
                 conns, published, calls, outcome, log_count, api_calls,
                 requests, token_rows>>

\* invalidate_user_tokens that deletes only the rows that have expired.
invalidate_user_tokens_expired_only(user_id) ==
  /\ token_rows' = token_rows \ (user_rows(user_id) \ active_rows(user_id))
  /\ reply' = [query |-> "invalidate_user_tokens", body |-> <<user_id>>]
  /\ UNCHANGED <<tasks, queues, handlers, pc, next_uuid, now, responses,
                 conns, published, calls, outcome, log_count, api_calls,
                 requests>>
\* DELETE FROM tokens WHERE user_id = %s
invalidate_user_tokens(user_id) ==
  /\ token_rows' = token_rows \ user_rows(user_id)
  /\ reply' = [query |-> "invalidate_user_tokens", body |-> <<user_id>>]
  /\ UNCHANGED <<tasks, queues, handlers, pc, next_uuid, now, responses,
                 conns, published, calls, outcome, log_count, api_calls,
                 requests>>

\* DELETE FROM tokens WHERE expires_at <= NOW()
clean_expired_tokens ==
  /\ token_rows' = {row \in token_rows : row.expires_at > now}
  /\ reply' = [query |-> "clean_expired_tokens",
               body |-> <<Cardinality({row \in token_rows :
                                         row.expires_at <= now})>>]
  /\ UNCHANGED <<tasks, queues, handlers, pc, next_uuid, now, responses,
                 conns, published, calls, outcome, log_count, api_calls,
                 requests>>

\* The token store alone, with the clock.  create_access_token stores a token
\* it has just encoded for the user named by its "sub", so a stored token
\* decodes and belongs to the user it is stored for.
NextTokens ==
  \/ \E user \in Users, token \in TokenValues, expires_at \in Expiries :
       /\ token.decodes
       /\ token.sub = user.username
       /\ store_active_token(user.id, token, expires_at)
  \/ \E user \in Users : get_active_token(user.id)
  \/ \E user \in Users : invalidate_user_tokens(user.id)
  \/ clean_expired_tokens
  \/ \E d \in Ticks : tick(d)

SpecTokens == Init /\ [][NextTokens]_vars

\* The user a token was issued to.
Owner(token) == get_user_by_username(token.sub)[1].id

NeverStored == {token \in TokenValues : ~token.decodes}

====
